---- MODULE Spec2Model ----
(***************************************************************************)
(* HUD placement and pinch-gesture loop of the NASA SUITS WebXR prototype. *)
(*                                                                         *)
(* The repository holds several iterations of the same program.  The      *)
(* variable `variant` selects which iteration a behaviour runs:            *)
(*   "env3"   SpaceEnvironment of src/unnamed/part_003 (lines 87-619)      *)
(*   "envjs"  SpaceEnvironment of src/spaceEnvironment.js                  *)
(*   "app"    NASASuitsApp of src/main.js (lines 719-1108)                 *)
(*   "legacy" NASASuitsApp of src/unnamed/part_000 (double pinch)          *)
(*   "main1"  NASASuitsApp of src/main.js (lines 9-704)                    *)
(*   "env4"   SpaceEnvironment of src/unnamed/part_004                     *)
(*   "uimgr"  UIManager of src/uiManager.js                                *)
(*                                                                         *)
(* Spec is the gesture and session machine, SpecDetectors the pinch        *)
(* detectors alone, SpecHud the per-frame HUD placement, SpecPanels the    *)
(* toggle and update entry points and the keyboard shortcuts.              *)
(*                                                                         *)
(* Units: Date.now() is in milliseconds; joint positions are in units of   *)
(* 0.1 mm (so the 0.02 m threshold is 200); camera and HUD positions are   *)
(* in units of 0.1 m (so the 0.3 standoff is 3).                           *)
(***************************************************************************)
EXTENDS Integers, Sequences, FiniteSets, TLC

\* ------------------------------------------------------------------ bounds
StartTime == 1000
MaxTime == 2252
MaxHoldFires == 2
Steps == {250, 251}

\* -------------------------------------------------------- program constants
DebounceMs == 500
PinchThreshold == 200

Variants == {"env3", "envjs", "app", "legacy", "main1"}
ClassVariants == {"env3", "envjs", "main1"}
LoopVariants == {"app", "legacy"}
Hands == {"left", "right"}
Absent == <<>>
NoTime == 0 - 1

VARIABLES
  variant,          \* which iteration of the program runs
  now,              \* Date.now()
  session,          \* renderer.xr.getSession() is non-null / xr.isPresenting
  isPinching,       \* this.isPinching (one cell, shared by both hands)
  lastPinchTime,    \* this.lastPinchTime / closure variable lastPinchTime
  pinchCount,       \* closure variable pinchCount (legacy)
  indicator,        \* pinchIndicatorLeft/Right.visible
  actionButtons,    \* actionButtons.visible / actionButtonsMenu.visible
  mapModal,         \* mapModal.visible
  domButtons,       \* closure variable actionButtonsVisible (DOM buttons)
  loopPending,      \* number of pending requestAnimationFrame(trackGestures)
  \* history variables, written but never read by the program
  fired,            \* hands whose bound action fired in the last step
  holdFires,        \* firings of a hand's action during its current hold
  lastFireTime,     \* time of the most recent firing
  fireGap,          \* time between the last two firings, capped at 501
  lastPose,         \* pose of each hand in the last frame
  lastTrans,        \* time and outcome of each hand's last idle->pinch edge
  pairFires,        \* firings over a hand's last two edges when <= 500 apart
  mid,              \* shared gesture cells between the two hands of a frame
  released,         \* hands whose processing reset the pinching flag
  lastStep,         \* name of the last step
  \* HUD placement
  camPos, camQuat,  \* this.camera.position / .quaternion (flat camera)
  xrPos, xrQuat,    \* world position / quaternion of renderer.xr.getCamera()
  rootPos, rootQuat,\* position / quaternion of the HUD root group
  \* detector under test (inputs and verdicts of the pure detectors)
  probe, verdict,   \* the hand handed to the detectors, and what they said
  \* history of the placement steps of SpecHud, never read by the program
  lastPlace,        \* mode and camera pose the last placement step read
  prevPlace,        \* the same for the step before, and the root it left
  xrPoseAvail,      \* a viewer pose has reached the XR camera this session
  \* scene graph and panels
  hudRoots,         \* HUD root groups that were created and added to a scene
  created,          \* the panels and elements that exist
  mapWindow,        \* mapWindow.visible
  mapWindowVisible, \* this.mapWindowVisible
  statValue,        \* text shown by each status panel
  call,             \* the last call of an entry point and what it returned
  requests,         \* parity of the toggle calls dispatched to each panel
  ctor,             \* progress of the application constructor
  frame,            \* progress of the frame callback and what it rendered
  reg,              \* SpaceUI's component registry and the scene graph
  proto             \* the prototype frame loop's flags

vars == <<variant, now, session, isPinching, lastPinchTime, pinchCount,
          indicator, actionButtons, mapModal, domButtons, loopPending,
          fired, holdFires, lastFireTime, fireGap, lastPose,
          lastTrans, pairFires, mid, released, lastStep,
          camPos, camQuat, xrPos, xrQuat, rootPos, rootQuat, probe, verdict,
          lastPlace, prevPlace, xrPoseAvail, hudRoots, created, mapWindow,
          mapWindowVisible, statValue, call,
          requests, ctor, frame, reg, proto>>

gestureVars == <<isPinching, lastPinchTime, pinchCount, indicator,
                 actionButtons, mapModal, domButtons, loopPending>>
historyVars == <<fired, holdFires, lastFireTime, fireGap, lastPose,
                 lastTrans, pairFires, mid, released>>
cameraVars == <<camPos, camQuat, xrPos, xrQuat>>
rootVars == <<rootPos, rootQuat>>
detectorVars == <<probe, verdict>>
placeVars == <<lastPlace, prevPlace, xrPoseAvail>>
panelVars == <<created, mapWindow, mapWindowVisible, statValue, call>>
staticVars == <<variant, ctor, frame, reg, proto>>
idleVars == <<staticVars, requests>>
uiVars == <<placeVars, hudRoots, panelVars>>

\* ------------------------------------------------------------ hand poses
\* A hand object as the detectors see it.
MkHand(p, j, i, t, m) ==
  [present |-> p, joints |-> j, index |-> i, thumb |-> t, middle |-> m]

NoHand == MkHand(FALSE, FALSE, Absent, Absent, Absent)
NoJoints == MkHand(TRUE, FALSE, Absent, Absent, Absent)
Origin == <<0, 0, 0>>
NearHand == MkHand(TRUE, TRUE, <<199, 0, 0>>, Origin, Origin)
FarHand == MkHand(TRUE, TRUE, <<200, 0, 0>>, Origin, Origin)
NoIndexHand == MkHand(TRUE, TRUE, Absent, Origin, Origin)
NoThumbHand == MkHand(TRUE, TRUE, <<199, 0, 0>>, Absent, Absent)

\* poses a tracked hand takes in a frame of the state machine
FramePoses == {NoJoints, NearHand, FarHand, NoIndexHand}

Sq(x) == x * x

\* THREE.Vector3.distanceTo(v) < d, on exact coordinates:
\* sqrt(dx^2 + dy^2 + dz^2) < d  iff  dx^2 + dy^2 + dz^2 < d^2  (d > 0)
DistanceLess(a, b, d) ==
  Sq(a[1] - b[1]) + Sq(a[2] - b[2]) + Sq(a[3] - b[3]) < Sq(d)

\* detectPinchGesture with the comparison written as <=
DetectPinchGestureInclusive(hand) ==
  IF ~hand.present \/ ~hand.joints THEN FALSE
  ELSE IF hand.index = Absent \/ hand.thumb = Absent THEN FALSE
  ELSE DistanceLess(hand.index, hand.thumb, PinchThreshold + 1)

\* SpaceEnvironment.detectPinchGesture(hand)
DetectPinchGesture(hand) ==
  IF ~hand.present \/ ~hand.joints THEN FALSE
  ELSE IF hand.index = Absent \/ hand.thumb = Absent THEN FALSE
  ELSE DistanceLess(hand.index, hand.thumb, PinchThreshold)

\* checkPinchGesture(hand) of NASASuitsApp.setupVRSessionListeners
CheckPinchGesture(hand) ==
  IF ~hand.present \/ ~hand.joints THEN FALSE
  ELSE IF hand.index = Absent \/ hand.thumb = Absent THEN FALSE
  ELSE DistanceLess(hand.index, hand.thumb, PinchThreshold)

\* checkPinchGesture(hand) of the double-pinch iteration (index + middle)
CheckPinchGestureLegacy(hand) ==
  IF ~hand.present \/ ~hand.joints THEN FALSE
  ELSE IF hand.index = Absent \/ hand.middle = Absent THEN FALSE
  ELSE DistanceLess(hand.index, hand.middle, PinchThreshold)

\* the classification the running variant applies to a hand
Classify(v, hand) ==
  IF v = "legacy" THEN CheckPinchGestureLegacy(hand)
  ELSE IF v = "app" THEN CheckPinchGesture(hand)
  ELSE DetectPinchGesture(hand)

\* isPinching(hand, referenceSpace) of the prototype frame loop: hand.joints
\* is indexed and hand.getJointPose is called before anything is tested, so a
\* hand without them raises a TypeError
IsPinching(hand) ==
  IF ~hand.present \/ ~hand.joints THEN "throw"
  ELSE IF hand.index = Absent \/ hand.thumb = Absent THEN "false"
  ELSE IF Sq(hand.index[1] - hand.thumb[1]) + Sq(hand.index[2] - hand.thumb[2])
          + Sq(hand.index[3] - hand.thumb[3]) < Sq(PinchThreshold)
       THEN "true"
  ELSE "false"

\* ------------------------------------------------------- gesture handlers
\* The cells a handler reads and writes, gathered in one record so that the
\* two calls of a frame (left hand, then right hand) compose.
GestureCells ==
  [isPinching |-> isPinching, lastPinchTime |-> lastPinchTime,
   pinchCount |-> pinchCount, indicator |-> indicator,
   actionButtons |-> actionButtons, mapModal |-> mapModal,
   domButtons |-> domButtons, fired |-> {}, released |-> {},
   requests |-> requests]

HandName(isLeft) == IF isLeft THEN "left" ELSE "right"

\* actionButtons.toggle() / mapModal.toggle() of SpaceUI, reached through
\* toggleActionButtons() / toggleMapModal(); `who` is the hand that fired
ToggleActionButtons(g, who) ==
  [g EXCEPT !.actionButtons = ~g.actionButtons, !.fired = @ \cup {who},
            !.requests.actionButtons = ~@]

ToggleMapModal(g, who) ==
  [g EXCEPT !.mapModal = ~g.mapModal, !.fired = @ \cup {who},
            !.requests.mapModal = ~@]

\* toggleActionButtons of the double-pinch iteration (DOM buttons)
ToggleDOMActionButtons(g, who) ==
  [g EXCEPT !.domButtons = ~g.domButtons, !.fired = @ \cup {who}]

\* handlePinchGesture with the indicator shown only when the pinch is
\* accepted by the debounce
HandlePinchGesture3Debounced(g, hand, pinching, isLeft, t) ==
  LET h == HandName(isLeft) IN
  IF pinching THEN
    IF hand.index # Absent /\ hand.thumb # Absent THEN
      IF ~g.isPinching /\ t - g.lastPinchTime > DebounceMs THEN
        LET g2 == [g EXCEPT !.isPinching = TRUE, !.indicator[h] = TRUE] IN
        IF isLeft THEN ToggleActionButtons(g2, h) ELSE ToggleMapModal(g2, h)
      ELSE g
    ELSE g
  ELSE
    LET g1 == [g EXCEPT !.indicator[h] = FALSE] IN
    IF g1.isPinching
    THEN [g1 EXCEPT !.isPinching = FALSE, !.lastPinchTime = t,
                    !.released = @ \cup {h}]
    ELSE g1

\* SpaceEnvironment.handlePinchGesture(hand, isPinching, isLeft), part_003
HandlePinchGesture3(g, hand, pinching, isLeft, t) ==
  LET h == HandName(isLeft) IN
  IF pinching THEN
    IF hand.index # Absent /\ hand.thumb # Absent THEN
      LET g1 == [g EXCEPT !.indicator[h] = TRUE] IN
      IF ~g1.isPinching /\ t - g1.lastPinchTime > DebounceMs THEN
        LET g2 == [g1 EXCEPT !.isPinching = TRUE] IN
        IF isLeft THEN ToggleActionButtons(g2, h) ELSE ToggleMapModal(g2, h)
      ELSE g1
    ELSE g
  ELSE
    LET g1 == [g EXCEPT !.indicator[h] = FALSE] IN
    IF g1.isPinching
    THEN [g1 EXCEPT !.isPinching = FALSE, !.lastPinchTime = t,
                    !.released = @ \cup {h}]
    ELSE g1

\* SpaceEnvironment.handlePinchGesture of src/spaceEnvironment.js (the later
\* of the two definitions in the class body is the one in effect): only the
\* left hand has a bound action, the action-button menu
HandlePinchGestureJs(g, hand, pinching, isLeft, t) ==
  LET h == HandName(isLeft) IN
  IF pinching THEN
    IF hand.index # Absent /\ hand.thumb # Absent THEN
      LET g1 == [g EXCEPT !.indicator[h] = TRUE] IN
      IF ~g1.isPinching /\ t - g1.lastPinchTime > DebounceMs THEN
        LET g2 == [g1 EXCEPT !.isPinching = TRUE] IN
        IF isLeft THEN ToggleActionButtons(g2, h) ELSE g2
      ELSE g1
    ELSE g
  ELSE
    LET g1 == [g EXCEPT !.indicator[h] = FALSE] IN
    IF g1.isPinching
    THEN [g1 EXCEPT !.isPinching = FALSE, !.lastPinchTime = t,
                    !.released = @ \cup {h}]
    ELSE g1

\* NASASuitsApp.handlePinchGesture(hand, isPinching, isLeft) of the first
\* class of src/main.js: the pinch is logged, no action is bound to it
HandlePinchGesture1(g, hand, pinching, isLeft, t) ==
  LET h == HandName(isLeft) IN
  IF pinching THEN
    IF hand.index # Absent /\ hand.thumb # Absent THEN
      LET g1 == [g EXCEPT !.indicator[h] = TRUE] IN
      IF ~g1.isPinching /\ t - g1.lastPinchTime > DebounceMs
      THEN [g1 EXCEPT !.isPinching = TRUE]
      ELSE g1
    ELSE g
  ELSE
    LET g1 == [g EXCEPT !.indicator[h] = FALSE] IN
    IF g1.isPinching
    THEN [g1 EXCEPT !.isPinching = FALSE, !.lastPinchTime = t,
                    !.released = @ \cup {h}]
    ELSE g1

HandlePinchGesture(v, g, hand, pinching, isLeft, t) ==
  IF v = "env3" THEN HandlePinchGesture3(g, hand, pinching, isLeft, t)
  ELSE IF v = "main1" THEN HandlePinchGesture1(g, hand, pinching, isLeft, t)
  ELSE HandlePinchGestureJs(g, hand, pinching, isLeft, t)

\* gestureHandler's body with the debounce comparison written as >=
GestureHandlerStepInclusive(g, src, isLeft, t) ==
  IF CheckPinchGesture(src.hand) THEN
    IF t - g.lastPinchTime >= DebounceMs THEN
      LET g1 == [g EXCEPT !.lastPinchTime = t] IN
      IF isLeft THEN ToggleActionButtons(g1, src.who)
      ELSE ToggleMapModal(g1, src.who)
    ELSE g
  ELSE g

\* the body of gestureHandler's forEach for one input source, main.js
GestureHandlerStep(g, src, isLeft, t) ==
  IF CheckPinchGesture(src.hand) THEN
    IF t - g.lastPinchTime > DebounceMs THEN
      LET g1 == [g EXCEPT !.lastPinchTime = t] IN
      IF isLeft THEN ToggleActionButtons(g1, src.who)
      ELSE ToggleMapModal(g1, src.who)
    ELSE g
  ELSE g

\* the forEach body with the buttons toggled on every accepted detection
GestureHandlerLegacyEvery(g, src, t) ==
  IF CheckPinchGestureLegacy(src.hand) THEN
    IF t - g.lastPinchTime > DebounceMs
    THEN [ToggleDOMActionButtons(g, src.who) EXCEPT !.lastPinchTime = t]
    ELSE g
  ELSE g

\* the body of gestureHandler's forEach for one input source, part_000
GestureHandlerLegacyStep(g, src, t) ==
  IF CheckPinchGestureLegacy(src.hand) THEN
    IF t - g.lastPinchTime > DebounceMs THEN
      LET g1 == [g EXCEPT !.pinchCount = @ + 1, !.lastPinchTime = t] IN
      IF g1.pinchCount = 2
      THEN [ToggleDOMActionButtons(g1, src.who) EXCEPT !.pinchCount = 0]
      ELSE g1
    ELSE g
  ELSE g

\* gestureHandler(): hands.forEach((source, index) => ...), index 0 is
\* taken to be the left hand
RECURSIVE GestureHandlerFrom(_, _, _, _, _)
GestureHandlerFrom(v, g, srcs, i, t) ==
  IF i > Len(srcs) THEN g
  ELSE GestureHandlerFrom(v,
         IF v = "app" THEN GestureHandlerStep(g, srcs[i], i = 1, t)
         ELSE GestureHandlerLegacyStep(g, srcs[i], t),
         srcs, i + 1, t)

GestureHandler(v, g, srcs, t) == GestureHandlerFrom(v, g, srcs, 1, t)

\* ---------------------------------------------------------- HUD placement
\* Quaternions are stored doubled, <<2x, 2y, 2z, 2w>>, so that the unit
\* quaternions with half-integer components are integer tuples.
IdentityQuat == <<0, 0, 0, 2>>
YawHalfTurn == <<0, 2, 0, 0>>
PitchHalfTurn == <<2, 0, 0, 0>>
DiagonalTurn == <<1, 1, 1, 1>>
Quats == {IdentityQuat, YawHalfTurn, PitchHalfTurn, DiagonalTurn}

\* camera.position.set(0, 1.6, 3)
CameraHome == <<0, 16, 30>>
CamPositions == {CameraHome, <<10, 16, 30>>, <<0, 0, 0>>}
XrPositions == {<<0, 16, 0>>, <<5, 17, -10>>}

\* standoff distances, in units of 0.1
StandoffFlat == 3
StandoffXR == 5

\* THREE.Vector3.applyQuaternion(q):
\*   t = 2 * cross(q.xyz, v);  v' = v + q.w * t + cross(q.xyz, t)
ApplyQuaternion(v, q) ==
  LET tx == q[2] * v[3] - q[3] * v[2]
      ty == q[3] * v[1] - q[1] * v[3]
      tz == q[1] * v[2] - q[2] * v[1]
  IN <<v[1] + (q[4] * tx + q[2] * tz - q[3] * ty) \div 2,
       v[2] + (q[4] * ty + q[3] * tx - q[1] * tz) \div 2,
       v[3] + (q[4] * tz + q[1] * ty - q[2] * tx) \div 2>>

MultiplyScalar(v, k) == <<v[1] * k, v[2] * k, v[3] * k>>
AddVectors(a, b) == <<a[1] + b[1], a[2] + b[2], a[3] + b[3]>>

\* a HUD root whose height stays at the eye level of the camera's home
InFrontOfFixedHeight(pos, quat, standoff) ==
  [pos |-> <<pos[1] + ApplyQuaternion(<<0, 0, -1>>, quat)[1] * standoff,
             CameraHome[2],
             pos[3] + ApplyQuaternion(<<0, 0, -1>>, quat)[3] * standoff>>,
   quat |-> quat]

\* a HUD root that moves half of the way to its target in each frame
InFrontOfSmoothed(pos, quat, standoff) ==
  [pos |-> <<(rootPos[1] + pos[1]
                + ApplyQuaternion(<<0, 0, -1>>, quat)[1] * standoff) \div 2,
             (rootPos[2] + pos[2]
                + ApplyQuaternion(<<0, 0, -1>>, quat)[2] * standoff) \div 2,
             (rootPos[3] + pos[3]
                + ApplyQuaternion(<<0, 0, -1>>, quat)[3] * standoff) \div 2>>,
   quat |-> quat]

\* a placement: the pose of `cam` pushed `standoff` along its forward axis
InFrontOf(pos, quat, standoff) ==
  [pos |-> AddVectors(pos, MultiplyScalar(
                             ApplyQuaternion(<<0, 0, -1>>, quat), standoff)),
   quat |-> quat]

\* updatePosition with the headset's standoff used for the flat camera too
UpdatePositionOneStandoff(isVR, presenting, cPos, cQuat, xPos, xQuat) ==
  IF isVR \/ presenting
  THEN InFrontOf(xPos, xQuat, StandoffXR)
  ELSE InFrontOf(cPos, cQuat, StandoffXR)

\* SpaceUI.updatePosition(isVR)
UpdatePosition(isVR, presenting, cPos, cQuat, xPos, xQuat) ==
  IF isVR \/ presenting
  THEN InFrontOf(xPos, xQuat, StandoffXR)
  ELSE InFrontOf(cPos, cQuat, StandoffFlat)

\* SpaceEnvironment.updateUIPosition() of src/spaceEnvironment.js
UpdateUIPosition(presenting, cPos, cQuat, xPos, xQuat) ==
  IF presenting
  THEN InFrontOf(xPos, xQuat, StandoffXR)
  ELSE InFrontOf(cPos, cQuat, StandoffFlat)

\* standoff distances of the routines that read this.camera only
StandoffAnimate == 10
StandoffUpdateUI == 5
StandoffUIManager == 20

\* the uiGroup block of NASASuitsApp.animate (first class of src/main.js)
AnimateUiGroup(cPos, cQuat) == InFrontOf(cPos, cQuat, StandoffAnimate)

\* SpaceEnvironment.updateUI() of src/unnamed/part_004
UpdateUI(cPos, cQuat) == InFrontOf(cPos, cQuat, StandoffUpdateUI)

\* UIManager.updateUI, the closure built by setupUITracking
UIManagerUpdateUI(cPos, cQuat) == InFrontOf(cPos, cQuat, StandoffUIManager)

\* the placement routines that have a branch for a presenting session
XrBranchVariants == {"env3", "envjs", "app"}

\* the camera object the routine of variant v reads
PlacementCamera(v, presenting) ==
  IF presenting /\ v \in XrBranchVariants THEN "xr" ELSE "flat"

\* the placement step the frame of variant v runs
Placement(v, presenting, cPos, cQuat, xPos, xQuat) ==
  IF v = "envjs"
  THEN UpdateUIPosition(presenting, cPos, cQuat, xPos, xQuat)
  ELSE IF v = "main1" THEN AnimateUiGroup(cPos, cQuat)
  ELSE IF v = "env4" THEN UpdateUI(cPos, cQuat)
  ELSE IF v = "uimgr" THEN UIManagerUpdateUI(cPos, cQuat)
  ELSE UpdatePosition(presenting, presenting, cPos, cQuat, xPos, xQuat)

\* ------------------------------------------------------------ the machine
NoPair == 0 - 1
NoTrans == [time |-> NoTime, fired |-> FALSE]
Min(a, b) == IF a < b THEN a ELSE b
B2N(b) == IF b THEN 1 ELSE 0

\* input sources of a session that carry a hand, in the order the session
\* lists them: no hand, one hand, or both hands in either order
SourceLists ==
  {<<>>}
  \cup {<<[who |-> w, hand |-> p]>> : w \in Hands, p \in FramePoses}
  \cup {<<[who |-> w, hand |-> p], [who |-> CHOOSE x \in Hands : x # w,
                                   hand |-> q]>> :
         w \in Hands, p \in FramePoses, q \in FramePoses}

PoseOf(srcs, h) ==
  IF \E i \in 1..Len(srcs) : srcs[i].who = h
  THEN srcs[CHOOSE i \in 1..Len(srcs) : srcs[i].who = h].hand
  ELSE NoHand

GestureInit ==
  /\ now = StartTime
  /\ session = FALSE
  /\ isPinching = FALSE
  /\ lastPinchTime = 0
  /\ pinchCount = 0
  /\ indicator = [h \in Hands |-> FALSE]
  /\ actionButtons = FALSE
  /\ mapModal = FALSE
  /\ domButtons = FALSE
  /\ loopPending = 0
  /\ fired = {}
  /\ holdFires = [h \in Hands |-> 0]
  /\ lastFireTime = NoTime
  /\ fireGap = NoTime
  /\ lastPose = [h \in Hands |-> NoHand]
  /\ lastTrans = [h \in Hands |-> NoTrans]
  /\ pairFires = [h \in Hands |-> NoPair]
  /\ mid = [isPinching |-> FALSE, lastPinchTime |-> 0, second |-> FALSE]
  /\ released = {}
  /\ lastStep = "init"

\* no placement step has run yet
NoPlace == [mode |-> FALSE, pos |-> Absent, quat |-> Absent]

HudInit ==
  /\ camPos = CameraHome
  /\ camQuat = IdentityQuat
  /\ xrPos = <<0, 16, 0>>
  /\ xrQuat = IdentityQuat
  /\ rootPos = <<0, 0, 0>>
  /\ rootQuat = IdentityQuat
  /\ lastPlace = NoPlace
  /\ prevPlace = [read |-> NoPlace, pos |-> <<0, 0, 0>>, quat |-> IdentityQuat]
  /\ xrPoseAvail = FALSE

\* the component constructions of each application's constructor, in order
ConstructionSteps(v) ==
  IF v = "app" THEN <<"SpaceUI", "SpaceEnvironment">>
  ELSE IF v = "legacy" THEN <<"SpaceEnvironment", "UIManager">>
  ELSE IF v = "env3" THEN <<"SpaceUI">>
  ELSE IF v \in {"envjs", "env4"} THEN <<"SpaceEnvironment">>
  ELSE IF v = "uimgr" THEN <<"UIManager">>
  ELSE IF v = "main1" THEN <<"NASASuitsApp.setupUI">>
  ELSE <<>>

\* the HUD root group a component's constructor creates and adds to a scene
RootCreatedBy(component) ==
  IF component = "SpaceUI" THEN "SpaceUI.root"
  ELSE IF component = "SpaceEnvironment" THEN "SpaceEnvironment.uiRoot"
  ELSE IF component = "UIManager" THEN "UIManager.uiGroup"
  ELSE "NASASuitsApp.uiGroup"

HudRootsOf(v) ==
  {RootCreatedBy(ConstructionSteps(v)[i]) : i \in 1..Len(ConstructionSteps(v))}

\* the panels that exist when construction is over
ConstructedPanels(v) ==
  IF v \in {"app", "env3"} THEN {"actionButtons", "mapModal", "statusPanel"}
  ELSE IF v = "envjs" THEN {"actionButtons", "mapWindow"}
  ELSE IF v \in {"uimgr", "env4"} THEN {"mapWindow"}
  ELSE {}

\* status panels of createStatusPanels, and what a panel can show
Stats == {"Battery", "O2", "Pressure"}
InitialText == "initial"
UpdatedText == "updated"

NoCall == [op |-> "none", target |-> "none", arg |-> "none", ret |-> "none",
           twice |-> FALSE]

\* no toggle call has been dispatched
NoRequests == [actionButtons |-> FALSE, mapModal |-> FALSE]

\* a constructor that has not run a step: pc is the step to run next,
\* failAt the step that will throw (0: none), message the error's message
NoCtor ==
  [pc |-> 1, failAt |-> 0, message |-> "none", done |-> <<>>,
   shown |-> 0, errorText |-> "", errorVisible |-> FALSE,
   caught |-> FALSE, escaped |-> FALSE]
\* a frame loop between two callbacks that has rendered nothing yet: pc is
\* the step the callback runs next, rendered what the last render drew
NoFrame ==
  [pc |-> 1,
   rendered |-> [any |-> FALSE, pos |-> <<0, 0, 0>>, quat |-> <<0, 0, 0, 2>>,
                 actionButtons |-> FALSE]]
\* ids handed to SpaceUI's create methods; createStatusPanels(id) derives
\* the per-panel ids `${id}-panel-${index}`
StatusId == "status"
StatusPanelIds == <<"status-panel-0", "status-panel-1", "status-panel-2">>
PanelsPerGroup == 1
MaxObjects == 5
Ids == {"hud", StatusId} \cup {StatusPanelIds[i] : i \in 1..PanelsPerGroup}
Objects == 1..MaxObjects

\* this.components = new Map() and an empty this.root: objects are numbered
\* in creation order, 0 stands for "no object"
NoReg ==
  [components |-> [id \in Ids |-> 0],
   onRoot |-> {},
   inGroup |-> [o \in Objects |-> 0],
   next |-> 1,
   latest |-> [id \in Ids |-> 0],
   last |-> [op |-> "none", id |-> "none", was |-> 0]]
\* the prototype after init(): the demo panel starts hidden, pinch mode off
NoProto ==
  [panel |-> FALSE, isPinchMode |-> FALSE, session |-> FALSE,
   hands |-> <<>>, threw |-> FALSE]

PanelInit ==
  /\ hudRoots = HudRootsOf(variant)
  /\ created = ConstructedPanels(variant)
  /\ mapWindow = FALSE
  /\ mapWindowVisible = FALSE
  /\ statValue = [s \in Stats |-> InitialText]
  /\ call = NoCall
  /\ requests = NoRequests

\* the constructor, the frame callback, the registry and the prototype loop
\* at rest
IdleInit ==
  /\ ctor = NoCtor
  /\ frame = NoFrame
  /\ reg = NoReg
  /\ proto = NoProto

DetectorInit ==
  /\ probe = NoHand
  /\ verdict = [detect |-> FALSE, check |-> FALSE, proto |-> "none"]

Init ==
  /\ variant \in Variants
  /\ GestureInit
  /\ HudInit
  /\ DetectorInit
  /\ PanelInit
  /\ IdleInit

\* write back the cells a handler run left in g, and keep the history
Commit(g, poses, t) ==
  /\ now' = t
  /\ isPinching' = g.isPinching
  /\ lastPinchTime' = g.lastPinchTime
  /\ pinchCount' = g.pinchCount
  /\ indicator' = g.indicator
  /\ actionButtons' = g.actionButtons
  /\ mapModal' = g.mapModal
  /\ domButtons' = g.domButtons
  /\ requests' = g.requests
  /\ fired' = g.fired
  /\ released' = g.released
  /\ lastPose' = poses
  /\ holdFires' = [h \in Hands |->
        IF Classify(variant, poses[h])
        THEN Min(holdFires[h] + B2N(h \in g.fired), MaxHoldFires)
        ELSE 0]
  /\ lastFireTime' = IF g.fired # {} THEN t ELSE lastFireTime
  /\ fireGap' = IF Cardinality(g.fired) > 1 THEN 0
                ELSE IF g.fired # {} /\ lastFireTime # NoTime
                     THEN Min(t - lastFireTime, DebounceMs + 1)
                ELSE fireGap
  /\ LET edge(h) == Classify(variant, poses[h])
                    /\ ~Classify(variant, lastPose[h])
     IN /\ lastTrans' = [h \in Hands |->
              IF edge(h) THEN [time |-> t, fired |-> h \in g.fired]
              ELSE lastTrans[h]]
        /\ pairFires' = [h \in Hands |->
              IF edge(h)
              THEN IF lastTrans[h].time # NoTime
                      /\ t - lastTrans[h].time <= DebounceMs
                   THEN B2N(lastTrans[h].fired) + B2N(h \in g.fired)
                   ELSE NoPair
              ELSE pairFires[h]]

\* SpaceEnvironment.update(): one frame of the class variants
Update(d, poseL, poseR) ==
  /\ variant \in ClassVariants
  /\ now + d <= MaxTime
  /\ session \/ (poseL = NoJoints /\ poseR = NoJoints)
  /\ LET t == now + d
         place == Placement(variant, session, camPos, camQuat, xrPos, xrQuat)
         g0 == GestureCells
         gL == IF session /\ poseL.present /\ poseL.joints
               THEN HandlePinchGesture(variant, g0, poseL,
                                       DetectPinchGesture(poseL), TRUE, t)
               ELSE g0
         gR == IF session /\ poseR.present /\ poseR.joints
               THEN HandlePinchGesture(variant, gL, poseR,
                                       DetectPinchGesture(poseR), FALSE, t)
               ELSE gL
     IN /\ rootPos' = place.pos
        /\ rootQuat' = place.quat
        /\ Commit(gR, [h \in Hands |-> IF h = "left" THEN poseL ELSE poseR], t)
        /\ mid' = [isPinching |-> gL.isPinching,
                   lastPinchTime |-> gL.lastPinchTime,
                   second |-> session /\ poseR.present /\ poseR.joints]
  /\ lastStep' = "Update"
  /\ UNCHANGED <<uiVars, staticVars, session, loopPending, cameraVars, detectorVars>>

\* the XR subsystem starts / ends a session; the class variants have no
\* listener, they poll renderer.xr.getSession() in update()
SessionStartEnv(d) ==
  /\ variant \in ClassVariants
  /\ ~session
  /\ now + d <= MaxTime
  /\ now' = now + d
  /\ session' = TRUE
  /\ fired' = {}
  /\ released' = {}
  /\ lastStep' = "SessionStart"
  /\ UNCHANGED <<uiVars, idleVars, gestureVars, holdFires, lastFireTime, fireGap,
                 lastPose, lastTrans, pairFires, mid,
                 cameraVars, rootVars, detectorVars>>

SessionEndEnv(d) ==
  /\ variant \in ClassVariants
  /\ session
  /\ now + d <= MaxTime
  /\ now' = now + d
  /\ session' = FALSE
  /\ fired' = {}
  /\ released' = {}
  /\ lastStep' = "SessionEnd"
  /\ UNCHANGED <<uiVars, idleVars, gestureVars, holdFires, lastFireTime, fireGap,
                 lastPose, lastTrans, pairFires, mid,
                 cameraVars, rootVars, detectorVars>>

\* the cells after the first input source of a gestureHandler run
MidOf(v, srcs, t) ==
  LET g == GestureHandler(v, GestureCells, SubSeq(srcs, 1, Min(1, Len(srcs))), t)
  IN [isPinching |-> g.isPinching, lastPinchTime |-> g.lastPinchTime,
      second |-> Len(srcs) > 1]

\* 'sessionstart' listener: trackGestures() runs once at once and schedules
\* itself with requestAnimationFrame
SessionStart(d, srcs) ==
  /\ variant \in LoopVariants
  /\ ~session
  /\ now + d <= MaxTime
  /\ session' = TRUE
  /\ LET t == now + d
         g == GestureHandler(variant, GestureCells, srcs, t)
     IN /\ Commit(g, [h \in Hands |-> PoseOf(srcs, h)], t)
        /\ mid' = MidOf(variant, srcs, t)
  /\ loopPending' = loopPending + 1
  /\ lastStep' = "SessionStart"
  /\ UNCHANGED <<uiVars, staticVars, cameraVars, rootVars, detectorVars>>

\* trackGestures as a requestAnimationFrame callback
TrackGestures(d, srcs) ==
  /\ variant \in LoopVariants
  /\ loopPending > 0
  /\ now + d <= MaxTime
  /\ session \/ srcs = <<>>
  /\ LET t == now + d
         g == IF session
              THEN GestureHandler(variant, GestureCells, srcs, t)
              ELSE GestureCells
     IN /\ Commit(g, [h \in Hands |-> PoseOf(srcs, h)], t)
        /\ mid' = IF session THEN MidOf(variant, srcs, t)
                  ELSE [mid EXCEPT !.second = FALSE]
  /\ loopPending' = IF session THEN loopPending ELSE loopPending - 1
  /\ lastStep' = "TrackGestures"
  /\ UNCHANGED <<uiVars, staticVars, session, cameraVars, rootVars, detectorVars>>

\* a 'sessionend' listener that leaves the pending frame request alone
SessionEndNoCancel(d) ==
  /\ variant \in LoopVariants
  /\ session
  /\ now + d <= MaxTime
  /\ now' = now + d
  /\ session' = FALSE
  /\ domButtons' = FALSE
  /\ pinchCount' = IF variant = "legacy" THEN 0 ELSE pinchCount
  /\ fired' = {}
  /\ released' = {}
  /\ lastStep' = "SessionEnd"
  /\ UNCHANGED <<uiVars, idleVars, isPinching, lastPinchTime, indicator,
                 actionButtons, mapModal, holdFires, lastFireTime, fireGap,
                 lastPose, lastTrans, pairFires, mid, loopPending,
                 cameraVars, rootVars, detectorVars>>

\* 'sessionend' listener
SessionEnd(d) ==
  /\ variant \in LoopVariants
  /\ session
  /\ now + d <= MaxTime
  /\ now' = now + d
  /\ session' = FALSE
  /\ loopPending' = IF loopPending > 0 THEN loopPending - 1 ELSE 0
  /\ domButtons' = FALSE
  /\ pinchCount' = IF variant = "legacy" THEN 0 ELSE pinchCount
  /\ fired' = {}
  /\ released' = {}
  /\ lastStep' = "SessionEnd"
  /\ UNCHANGED <<uiVars, idleVars, isPinching, lastPinchTime, indicator,
                 actionButtons, mapModal, holdFires, lastFireTime, fireGap,
                 lastPose, lastTrans, pairFires, mid,
                 cameraVars, rootVars, detectorVars>>

Next ==
  \/ \E d \in Steps, poseL \in FramePoses, poseR \in FramePoses :
        Update(d, poseL, poseR)
  \/ \E d \in Steps : SessionStartEnv(d)
  \/ \E d \in Steps : SessionEndEnv(d)
  \/ \E d \in Steps, srcs \in SourceLists : SessionStart(d, srcs)
  \/ \E d \in Steps, srcs \in SourceLists : TrackGestures(d, srcs)
  \/ \E d \in Steps : SessionEnd(d)

Spec == Init /\ [][Next]_vars

\* ------------------------------------------------- the detectors alone
ProbePositions ==
  {<<x, y, z>> : x \in {0, 199, 200}, y \in {0, 120}, z \in {0, 160}}

ProbeHands ==
  {NoHand, NoJoints}
  \cup {MkHand(TRUE, TRUE, i, t, Origin) :
          i \in ProbePositions \cup {Absent},
          t \in {Origin, <<1, 0, 0>>, <<0, 120, 160>>, Absent}}

NoVerdict == [detect |-> FALSE, check |-> FALSE, proto |-> "none"]

InitDetectors ==
  /\ variant = "detectors"
  /\ GestureInit
  /\ HudInit
  /\ probe \in ProbeHands
  /\ verdict = NoVerdict
  /\ PanelInit
  /\ IdleInit

\* hand a hand to each detector
Detect ==
  /\ lastStep # "Detect"
  /\ verdict' = [detect |-> DetectPinchGesture(probe),
                 check |-> CheckPinchGesture(probe),
                 proto |-> IsPinching(probe)]
  /\ lastStep' = "Detect"
  /\ UNCHANGED <<uiVars, idleVars, now, session, gestureVars, historyVars,
                 cameraVars, rootVars, probe>>

\* the next frame brings another hand
NextProbe(p) ==
  /\ lastStep = "Detect"
  /\ probe' = p
  /\ verdict' = NoVerdict
  /\ lastStep' = "NextProbe"
  /\ UNCHANGED <<uiVars, idleVars, now, session, gestureVars, historyVars,
                 cameraVars, rootVars>>

NextDetectors == Detect \/ \E p \in ProbeHands : NextProbe(p)

SpecDetectors == InitDetectors /\ [][NextDetectors]_vars

\* ------------------------------------------------- HUD placement alone
\*   "main1"  NASASuitsApp.animate of src/main.js (lines 656-704)
\*   "env4"   SpaceEnvironment of src/unnamed/part_004
\*   "uimgr"  UIManager of src/uiManager.js
HudVariants == {"env3", "envjs", "main1", "env4", "uimgr"}

InitHud ==
  /\ variant \in HudVariants
  /\ GestureInit
  /\ HudInit
  /\ DetectorInit
  /\ PanelInit
  /\ IdleInit

\* OrbitControls / the user move the flat camera
MoveCamera(p, q) ==
  /\ camPos' = p
  /\ camQuat' = q
  /\ lastStep' = "MoveCamera"
  /\ UNCHANGED <<idleVars, now, session, gestureVars, historyVars,
                 xrPos, xrQuat, xrPoseAvail, rootVars, lastPlace, prevPlace,
                 detectorVars, hudRoots, panelVars>>

\* an XR frame brings a viewer pose; three.js updates the XR camera
MoveHeadset(p, q) ==
  /\ session
  /\ xrPos' = p
  /\ xrQuat' = q
  /\ xrPoseAvail' = TRUE
  /\ lastStep' = "MoveHeadset"
  /\ UNCHANGED <<idleVars, now, session, gestureVars, historyVars,
                 camPos, camQuat, rootVars, lastPlace, prevPlace,
                 detectorVars, hudRoots, panelVars>>

\* a session starts: xr.isPresenting is true, no viewer pose has come yet
HudSessionStart ==
  /\ ~session
  /\ session' = TRUE
  /\ xrPoseAvail' = FALSE
  /\ lastStep' = "SessionStart"
  /\ UNCHANGED <<idleVars, now, gestureVars, historyVars,
                 cameraVars, rootVars, lastPlace, prevPlace,
                 detectorVars, hudRoots, panelVars>>

HudSessionEnd ==
  /\ session
  /\ session' = FALSE
  /\ xrPoseAvail' = FALSE
  /\ lastStep' = "SessionEnd"
  /\ UNCHANGED <<idleVars, now, gestureVars, historyVars,
                 cameraVars, rootVars, lastPlace, prevPlace,
                 detectorVars, hudRoots, panelVars>>

\* the pose of the camera the placement routine reads in this state
ReadPose ==
  IF PlacementCamera(variant, session) = "xr"
  THEN [mode |-> session, pos |-> xrPos, quat |-> xrQuat]
  ELSE [mode |-> session, pos |-> camPos, quat |-> camQuat]

\* the placement step of a frame
PlaceHud ==
  /\ LET place == Placement(variant, session, camPos, camQuat, xrPos, xrQuat)
     IN /\ rootPos' = place.pos
        /\ rootQuat' = place.quat
  /\ prevPlace' = [read |-> lastPlace, pos |-> rootPos, quat |-> rootQuat]
  /\ lastPlace' = ReadPose
  /\ lastStep' = "Place"
  /\ UNCHANGED <<idleVars, now, session, gestureVars, historyVars,
                 cameraVars, xrPoseAvail, detectorVars, hudRoots, panelVars>>

NextHud ==
  \/ \E p \in CamPositions, q \in Quats : MoveCamera(p, q)
  \/ \E p \in XrPositions, q \in {IdentityQuat, YawHalfTurn} : MoveHeadset(p, q)
  \/ HudSessionStart
  \/ HudSessionEnd
  \/ PlaceHud

SpecHud == InitHud /\ [][NextHud]_vars

\* ------------------------------------------------- panels and keyboard
\* The cells the toggle and update entry points read and write, with the
\* value the call returned ("true", "false", "undefined" or "throw").
PanelCells ==
  [actionButtons |-> actionButtons, mapModal |-> mapModal,
   mapWindow |-> mapWindow, mapWindowVisible |-> mapWindowVisible,
   created |-> created, statValue |-> statValue,
   rootPos |-> rootPos, rootQuat |-> rootQuat, ret |-> "undefined",
   requests |-> requests]

B2S(b) == IF b THEN "true" ELSE "false"

\* modal.toggle() and actionButtonsMenu.toggle() of SpaceUI: no parameter is
\* declared, so an argument of the call is dropped
SpaceUIToggle(c, target, arg) ==
  IF target = "actionButtons"
  THEN [c EXCEPT !.actionButtons = ~@, !.ret = B2S(~c.actionButtons)]
  ELSE [c EXCEPT !.mapModal = ~@, !.ret = B2S(~c.mapModal)]

\* a toggle entry point that shows its panel whatever its state
AppToggleShow(c, target) ==
  LET c1 == [c EXCEPT !.requests[target] = ~@] IN
  IF target = "actionButtons"
  THEN [c1 EXCEPT !.actionButtons = TRUE, !.ret = "true"]
  ELSE [c1 EXCEPT !.mapModal = TRUE, !.ret = "true"]

\* NASASuitsApp.toggleActionButtons() / toggleMapModal() of src/main.js
AppToggle(c, target) ==
  LET c1 == [c EXCEPT !.requests[target] = ~@] IN
  IF target \in c1.created
  THEN SpaceUIToggle(c1, target, "none")
  ELSE [c1 EXCEPT !.ret = "false"]

\* SpaceEnvironment.toggleActionButtons() / toggleMapModal() of part_003:
\* the new state is logged, nothing is returned
Env3Toggle(c, target) ==
  IF target \in c.created
  THEN [SpaceUIToggle(c, target, "none") EXCEPT !.ret = "undefined"]
  ELSE c

\* this.updateUIPosition() as called from a toggle of src/spaceEnvironment.js
Reposition(c) ==
  LET place == Placement("envjs", session, camPos, camQuat, xrPos, xrQuat)
  IN [c EXCEPT !.rootPos = place.pos, !.rootQuat = place.quat]

\* SpaceEnvironment.toggleMapWindow(visible = null), src/spaceEnvironment.js
EnvToggleMapWindow(c, arg) ==
  LET c1 == [c EXCEPT !.mapWindowVisible =
                         IF arg = "none" THEN ~@ ELSE arg = "true"]
      c2 == IF "mapWindow" \in c1.created
            THEN LET c3 == [c1 EXCEPT !.mapWindow = c1.mapWindowVisible]
                 IN IF c3.mapWindowVisible THEN Reposition(c3) ELSE c3
            ELSE c1
  IN [c2 EXCEPT !.ret = B2S(c2.mapWindowVisible)]

\* toggleMapWindow with the node updated only by the argument-less call
UIManagerToggleMapWindowFlagOnly(c, arg) ==
  LET c1 == [c EXCEPT !.mapWindowVisible =
                         IF arg = "none" THEN ~@ ELSE arg = "true"]
  IN IF arg = "none"
     THEN [c1 EXCEPT !.mapWindow = c1.mapWindowVisible,
                     !.ret = B2S(c1.mapWindowVisible)]
     ELSE [c1 EXCEPT !.ret = B2S(c1.mapWindowVisible)]

\* UIManager.toggleMapWindow(visible = null), and the same method of
\* part_004: this.mapWindow.visible is assigned without a test
UIManagerToggleMapWindow(c, arg) ==
  LET c1 == [c EXCEPT !.mapWindowVisible =
                         IF arg = "none" THEN ~@ ELSE arg = "true"]
  IN IF "mapWindow" \in c1.created
     THEN [c1 EXCEPT !.mapWindow = c1.mapWindowVisible,
                     !.ret = B2S(c1.mapWindowVisible)]
     ELSE [c1 EXCEPT !.ret = "throw"]

\* SpaceEnvironment.toggleActionButtons(visible = null), src/spaceEnvironment.js
EnvToggleActionButtons(c, arg) ==
  LET c1 == IF "actionButtons" \in c.created THEN c
            ELSE [c EXCEPT !.created = @ \cup {"actionButtons"},
                           !.actionButtons = FALSE]
      c2 == [c1 EXCEPT !.actionButtons =
                          IF arg = "none" THEN ~@ ELSE arg = "true"]
      c3 == IF c2.actionButtons THEN Reposition(c2) ELSE c2
  IN [c3 EXCEPT !.ret = B2S(c3.actionButtons)]

\* SpaceEnvironment.toggleMapModal() of src/spaceEnvironment.js: the modal is
\* built by the first call; nothing is returned
EnvToggleMapModal(c) ==
  LET c1 == IF "mapModal" \in c.created THEN c
            ELSE [c EXCEPT !.created = @ \cup {"mapModal"},
                           !.mapModal = FALSE]
      c2 == [c1 EXCEPT !.mapModal = ~@]
      c3 == IF c2.mapModal THEN Reposition(c2) ELSE c2
  IN [c3 EXCEPT !.ret = "undefined"]

\* statusGroup.updatePanel(title, value) of createStatusPanels
UpdatePanel(c, title, value) ==
  IF title \in Stats
  THEN [c EXCEPT !.statValue[title] = value, !.ret = "undefined"]
  ELSE [c EXCEPT !.ret = "undefined"]

\* updateStats(): a random status panel gets a new text
UpdateStats(c, stat, value) ==
  IF "statusPanel" \in c.created THEN UpdatePanel(c, stat, value) ELSE c

KeyCodes == {"KeyA", "KeyM", "KeyU", "KeyD", "KeyP", "Space"}

\* the keydown listener with the map key wired to both toggles
KeyDownAppBoth(c, code, stat, value) ==
  IF code = "KeyA" THEN AppToggle(c, "actionButtons")
  ELSE IF code = "KeyM"
       THEN AppToggle(AppToggle(c, "actionButtons"), "mapModal")
  ELSE IF code = "KeyU" THEN UpdateStats(c, stat, value)
  ELSE c

\* the keydown listener of NASASuitsApp.setupVRSessionListeners
KeyDownApp(c, code, stat, value) ==
  LET c1 == IF code = "KeyA" THEN AppToggle(c, "actionButtons") ELSE c
      c2 == IF code = "KeyM" THEN AppToggle(c1, "mapModal") ELSE c1
      c3 == IF code = "KeyU" THEN UpdateStats(c2, stat, value) ELSE c2
  IN [c3 EXCEPT !.ret = "undefined"]

\* the keydown listener of SpaceEnvironment.addKeyboardListeners, part_003
KeyDownEnv3(c, code, stat, value) ==
  LET c1 == IF code = "KeyM" THEN Env3Toggle(c, "mapModal")
            ELSE IF code = "KeyA" THEN Env3Toggle(c, "actionButtons")
            ELSE IF code = "KeyU" THEN UpdateStats(c, stat, value)
            ELSE c
  IN [c1 EXCEPT !.ret = "undefined"]

\* the variants that own a map window
MapWindowVariants == {"envjs", "uimgr", "env4"}

PanelSteps == {"PanelToggle", "ToggleActionButtons", "ToggleMapModal",
               "ToggleMapWindow", "UpdatePanel", "KeyDown"}
PanelVariants == {"app", "env3", "envjs", "uimgr", "env4"}
SpaceUIVariants == {"app", "env3"}
Args == {"none", "true", "false"}
Titles == Stats \cup {"Suit"}

InitPanels ==
  /\ variant \in PanelVariants
  /\ GestureInit
  /\ HudInit
  /\ DetectorInit
  /\ PanelInit
  /\ IdleInit

\* write back the cells a call left in c, and record the call
CommitCall(c, op, target, arg) ==
  /\ actionButtons' = c.actionButtons
  /\ mapModal' = c.mapModal
  /\ mapWindow' = c.mapWindow
  /\ mapWindowVisible' = c.mapWindowVisible
  /\ created' = c.created
  /\ statValue' = c.statValue
  /\ requests' = c.requests
  /\ rootPos' = c.rootPos
  /\ rootQuat' = c.rootQuat
  /\ call' = [op |-> op, target |-> target, arg |-> arg, ret |-> c.ret,
              twice |-> /\ call.op = op /\ call.target = target
                        /\ call.arg = arg]
  /\ UNCHANGED <<staticVars, now, session, isPinching, lastPinchTime,
                 pinchCount, indicator, domButtons, loopPending, historyVars,
                 cameraVars, placeVars, detectorVars, hudRoots>>

\* panel.toggle(arg) on a component SpaceUI has built
CallPanelToggle(target, arg) ==
  /\ variant \in SpaceUIVariants
  /\ target \in created
  /\ CommitCall(SpaceUIToggle(PanelCells, target, arg), "toggle", target, arg)
  /\ lastStep' = "PanelToggle"

\* toggleActionButtons(...) of the application object
CallToggleActionButtons(arg) ==
  /\ variant \in {"app", "env3", "envjs"}
  /\ variant \in SpaceUIVariants => arg = "none"
  /\ CommitCall(IF variant = "app"
                THEN AppToggle(PanelCells, "actionButtons")
                ELSE IF variant = "env3"
                THEN Env3Toggle(PanelCells, "actionButtons")
                ELSE EnvToggleActionButtons(PanelCells, arg),
                "toggleActionButtons", "actionButtons", arg)
  /\ lastStep' = "ToggleActionButtons"

\* toggleMapModal() of the application object
CallToggleMapModal ==
  /\ variant \in {"app", "env3", "envjs"}
  /\ CommitCall(IF variant = "app" THEN AppToggle(PanelCells, "mapModal")
                ELSE IF variant = "env3"
                THEN Env3Toggle(PanelCells, "mapModal")
                ELSE EnvToggleMapModal(PanelCells),
                "toggleMapModal", "mapModal", "none")
  /\ lastStep' = "ToggleMapModal"

\* toggleMapWindow(...) of SpaceEnvironment / UIManager
CallToggleMapWindow(arg) ==
  /\ variant \in MapWindowVariants
  /\ CommitCall(IF variant = "envjs"
                THEN EnvToggleMapWindow(PanelCells, arg)
                ELSE UIManagerToggleMapWindow(PanelCells, arg),
                "toggleMapWindow", "mapWindow", arg)
  /\ lastStep' = "ToggleMapWindow"

\* statusPanel.updatePanel(title, value)
CallUpdatePanel(title, value) ==
  /\ variant \in SpaceUIVariants
  /\ "statusPanel" \in created
  /\ CommitCall(UpdatePanel(PanelCells, title, value),
                "updatePanel", title, value)
  /\ lastStep' = "UpdatePanel"

\* a keydown event reaches the window
KeyDown(code, stat, value) ==
  /\ variant \in SpaceUIVariants
  /\ code # "KeyU" => (stat = "Battery" /\ value = InitialText)
  /\ CommitCall(IF variant = "app"
                THEN KeyDownApp(PanelCells, code, stat, value)
                ELSE KeyDownEnv3(PanelCells, code, stat, value),
                "keydown", "window", code)
  /\ lastStep' = "KeyDown"

NextPanels ==
  \/ \E target \in {"actionButtons", "mapModal"}, arg \in Args :
        CallPanelToggle(target, arg)
  \/ \E arg \in Args : CallToggleActionButtons(arg)
  \/ CallToggleMapModal
  \/ \E arg \in Args : CallToggleMapWindow(arg)
  \/ \E title \in Titles, value \in {InitialText, UpdatedText} :
        CallUpdatePanel(title, value)
  \/ \E code \in KeyCodes, stat \in Stats,
        value \in {InitialText, UpdatedText} : KeyDown(code, stat, value)

SpecPanels == InitPanels /\ [][NextPanels]_vars

\* ------------------------------------- keyboard, map button and gestures
\* The event sources of NASASuitsApp (second class of src/main.js) together:
\* key events, clicks on the DOM map button and the gesture loop.
InputKeys == {"KeyA", "KeyM", "KeyD"}

\* the hands of a frame: each tracked hand pinching or open
InputSourceLists ==
  {srcs \in SourceLists :
     \A i \in 1..Len(srcs) : srcs[i].hand \in {NearHand, FarHand}}

InitInput ==
  /\ variant = "app"
  /\ GestureInit
  /\ HudInit
  /\ DetectorInit
  /\ PanelInit
  /\ IdleInit

\* the click listener of the DOM element 'map-button'
MapButtonClick ==
  /\ variant = "app"
  /\ CommitCall(AppToggle(PanelCells, "mapModal"), "click", "map-button",
                "none")
  /\ lastStep' = "MapButtonClick"

\* the time between two events of the input machine
InputStep == 251

NextInput ==
  \/ \E code \in InputKeys : KeyDown(code, "Battery", InitialText)
  \/ MapButtonClick
  \/ \E srcs \in InputSourceLists : SessionStart(InputStep, srcs)
  \/ \E srcs \in InputSourceLists : TrackGestures(InputStep, srcs)
  \/ SessionEnd(InputStep)

SpecInput == InitInput /\ [][NextInput]_vars

\* ------------------------------------------------ SpaceUI's registry
\* THREE.Object3D.remove(child) as called on this.root: only a direct child
\* is taken out
RootRemove(r, o) == [r EXCEPT !.onRoot = @ \ {o}]

\* SpaceUI.removeComponent(id)
RemoveComponent(r, id) ==
  IF r.components[id] # 0
  THEN [RootRemove(r, r.components[id]) EXCEPT !.components[id] = 0]
  ELSE r

\* SpaceUI.createComponent(id, options); createPanel, createButton,
\* createModal and createActionButtons start with it
CreateComponent(r, id) ==
  LET r1 == IF r.components[id] # 0 THEN RemoveComponent(r, id) ELSE r
      o == r1.next
  IN [r1 EXCEPT !.components[id] = o, !.onRoot = @ \cup {o}, !.next = o + 1]

\* SpaceUI.getComponent(id): 0 stands for null
GetComponent(r, id) == r.components[id]

\* the forEach of createStatusPanels from panel i on: the panel is created
\* under the root, taken off the root and added to the group
RECURSIVE CreateStatusPanelsFrom(_, _, _)
CreateStatusPanelsFrom(r, group, i) ==
  IF i > PanelsPerGroup THEN r
  ELSE LET r1 == CreateComponent(r, StatusPanelIds[i])
           panelObj == GetComponent(r1, StatusPanelIds[i])
       IN CreateStatusPanelsFrom(
            IF panelObj # 0
            THEN [RootRemove(r1, panelObj) EXCEPT !.inGroup[panelObj] = group]
            ELSE r1,
            group, i + 1)

\* SpaceUI.createStatusPanels(id, options)
CreateStatusPanels(r, id) ==
  LET r1 == CreateComponent(r, id)
  IN CreateStatusPanelsFrom(r1, GetComponent(r1, id), 1)

\* the object is the UI root's child or the descendant of one
RECURSIVE AttachedUnderRoot(_, _)
AttachedUnderRoot(r, o) ==
  \/ o \in r.onRoot
  \/ r.inGroup[o] # 0 /\ AttachedUnderRoot(r, r.inGroup[o])

InitRegistry ==
  /\ variant = "spaceui"
  /\ GestureInit
  /\ HudInit
  /\ DetectorInit
  /\ PanelInit
  /\ IdleInit

RegistryUnchanged ==
  UNCHANGED <<variant, now, session, gestureVars, historyVars, cameraVars,
              rootVars, detectorVars, uiVars, requests, ctor, frame, proto>>

\* a caller creates a panel, button, modal or menu under the id
CallCreateComponent(id) ==
  /\ reg.next <= MaxObjects
  /\ reg' = [CreateComponent(reg, id) EXCEPT
               !.latest[id] = reg.next,
               !.last = [op |-> "create", id |-> id,
                         was |-> reg.components[id]]]
  /\ lastStep' = "CreateComponent"
  /\ RegistryUnchanged

\* a caller removes the component registered under the id
CallRemoveComponent(id) ==
  /\ reg' = [RemoveComponent(reg, id) EXCEPT
               !.latest[id] = 0,
               !.last = [op |-> "remove", id |-> id,
                         was |-> reg.components[id]]]
  /\ lastStep' = "RemoveComponent"
  /\ RegistryUnchanged

\* a caller creates the status panels: the group first, then each panel
CallCreateStatusPanels ==
  /\ reg.next + PanelsPerGroup <= MaxObjects
  /\ reg' = [CreateStatusPanels(reg, StatusId) EXCEPT
               !.latest = [id \in Ids |->
                  IF id = StatusId THEN reg.next
                  ELSE IF \E i \in 1..PanelsPerGroup : StatusPanelIds[i] = id
                  THEN reg.next
                       + (CHOOSE i \in 1..PanelsPerGroup :
                            StatusPanelIds[i] = id)
                  ELSE @[id]],
               !.last = [op |-> "createStatusPanels", id |-> StatusId,
                         was |-> reg.components[StatusId]]]
  /\ lastStep' = "CreateStatusPanels"
  /\ RegistryUnchanged

NextRegistry ==
  \/ \E id \in Ids : CallCreateComponent(id)
  \/ \E id \in Ids : CallRemoveComponent(id)
  \/ CallCreateStatusPanels

SpecRegistry == InitRegistry /\ [][NextRegistry]_vars

\* ------------------------------------------------ the prototype loop
\* "proto1" is part_001 (desktop testing enabled), "proto0" the last script
\* of src/main.js (no desktop branch, no key listener)
ProtoVariants == {"proto0", "proto1"}
ProtoKeys == {"p", "P", "d", "x"}

\* for (const source of inputSources) { if (source.hand) ... } from source i
\* on: every hand in turn assigns panel.visible; an exception of isPinching
\* leaves the callback
RECURSIVE ProtoHandsFrom(_, _, _)
ProtoHandsFrom(p, srcs, i) ==
  IF i > Len(srcs) THEN p
  ELSE IF ~srcs[i].hand.present THEN ProtoHandsFrom(p, srcs, i + 1)
  ELSE IF IsPinching(srcs[i].hand) = "throw" THEN [p EXCEPT !.threw = TRUE]
  ELSE ProtoHandsFrom([p EXCEPT !.panel = (IsPinching(srcs[i].hand) = "true")],
                      srcs, i + 1)

\* the callback passed to renderer.setAnimationLoop in animate()
ProtoAnimate(v, p, srcs) ==
  LET p0 == [p EXCEPT !.hands = srcs, !.threw = FALSE] IN
  IF p0.session THEN ProtoHandsFrom(p0, srcs, 1)
  ELSE IF v = "proto1" THEN [p0 EXCEPT !.panel = p0.isPinchMode]
  ELSE p0

\* the keydown listener of part_001
ProtoKeyDown(p, key) ==
  IF key \in {"p", "P"}
  THEN [p EXCEPT !.isPinchMode = ~@, !.panel = ~p.isPinchMode]
  ELSE p

InitProto ==
  /\ variant \in ProtoVariants
  /\ GestureInit
  /\ HudInit
  /\ DetectorInit
  /\ PanelInit
  /\ IdleInit

ProtoUnchanged ==
  UNCHANGED <<variant, now, session, gestureVars, historyVars, cameraVars,
              rootVars, detectorVars, uiVars, requests, ctor, frame, reg>>

\* one frame; hands are tracked only while a session runs
ProtoFrame(srcs) ==
  /\ proto.session \/ srcs = <<>>
  /\ proto' = ProtoAnimate(variant, proto, srcs)
  /\ lastStep' = "ProtoFrame"
  /\ ProtoUnchanged

ProtoKey(key) ==
  /\ variant = "proto1"
  /\ proto' = ProtoKeyDown(proto, key)
  /\ lastStep' = "ProtoKeyDown"
  /\ ProtoUnchanged

\* the user enters / leaves the immersive session through the VRButton
ProtoSessionStart ==
  /\ ~proto.session
  /\ proto' = [proto EXCEPT !.session = TRUE]
  /\ lastStep' = "ProtoSessionStart"
  /\ ProtoUnchanged

ProtoSessionEnd ==
  /\ proto.session
  /\ proto' = [proto EXCEPT !.session = FALSE]
  /\ lastStep' = "ProtoSessionEnd"
  /\ ProtoUnchanged

NextProto ==
  \/ \E srcs \in SourceLists : ProtoFrame(srcs)
  \/ \E key \in ProtoKeys : ProtoKey(key)
  \/ ProtoSessionStart
  \/ ProtoSessionEnd

SpecProto == InitProto /\ [][NextProto]_vars

\* ------------------------------------------- application construction
\* the statements of the constructor's try block, in order
ConstructorSteps(v) ==
  IF v = "app"
  THEN <<"scene", "camera", "renderer", "domElement", "VRButton",
         "OrbitControls", "SpaceUI", "SpaceEnvironment", "initializeUI",
         "setupVRSessionListeners", "resize", "setAnimationLoop",
         "hideLoading">>
  ELSE <<"scene", "camera", "renderer", "domElement", "VRButton",
         "OrbitControls", "SpaceEnvironment", "UIManager",
         "setupVRSessionListeners", "resize", "setAnimationLoop",
         "hideLoading", "addMouseControls">>

CtorVariants == {"app", "legacy"}
MaxCtorSteps == Len(ConstructorSteps("app"))
Messages == {"WebGL is not available", "container is null"}

\* displayError(error): index.html holds the element with id 'error'
DisplayError(c, message) ==
  [c EXCEPT !.errorText = "Error: " \o message, !.errorVisible = TRUE,
            !.shown = @ + 1]

\* a constructor whose catch block shows the error and carries on with the
\* statements after the failing one
ConstructorStepResume(v, c) ==
  IF c.pc = c.failAt
  THEN [DisplayError(c, c.message) EXCEPT !.caught = TRUE, !.pc = @ + 1]
  ELSE [c EXCEPT !.done = Append(@, ConstructorSteps(v)[c.pc]), !.pc = @ + 1]

\* the next statement of the try block; when it throws, control passes to
\* the catch block (console.error, this.displayError(error)) and the
\* constructor returns
ConstructorStep(v, c) ==
  IF c.pc = c.failAt
  THEN [DisplayError(c, c.message) EXCEPT
          !.caught = TRUE, !.pc = Len(ConstructorSteps(v)) + 1]
  ELSE [c EXCEPT !.done = Append(@, ConstructorSteps(v)[c.pc]), !.pc = @ + 1]

\* 'DOMContentLoaded': new NASASuitsApp() is about to run; the step that
\* will fail and its message are the environment's choice
InitConstruct ==
  /\ variant \in CtorVariants
  /\ GestureInit
  /\ HudInit
  /\ DetectorInit
  /\ PanelInit
  /\ frame = NoFrame
  /\ reg = NoReg
  /\ proto = NoProto
  /\ \E f \in 0..MaxCtorSteps, m \in Messages :
        /\ f > 0 \/ m = "WebGL is not available"
        /\ ctor = [NoCtor EXCEPT !.failAt = f,
                                 !.message = IF f = 0 THEN "none" ELSE m]

Construct ==
  /\ ctor.pc <= Len(ConstructorSteps(variant))
  /\ ctor' = ConstructorStep(variant, ctor)
  /\ lastStep' = "Construct"
  /\ UNCHANGED <<variant, now, session, gestureVars, historyVars, cameraVars,
                 rootVars, detectorVars, uiVars, requests, frame, reg, proto>>

NextConstruct == Construct

SpecConstruct == InitConstruct /\ [][NextConstruct]_vars

\* ---------------------------------------------------- the frame callback
FrameVariants == {"envjs", "env3", "main1", "env4"}

\* a frame callback that draws the scene before it places the HUD
FrameStepsRenderFirst(v) ==
  IF v = "main1" THEN <<"controls", "render", "gestures", "place">>
  ELSE <<"controls", "render", "place", "gestures">>

\* the statements of update() / animate(), in order
FrameSteps(v) ==
  IF v = "main1" THEN <<"controls", "gestures", "place", "render">>
  ELSE <<"controls", "place", "gestures", "render">>

FrameStep == FrameSteps(variant)[frame.pc]
FrameAdvance(f) ==
  [f EXCEPT !.pc = IF @ = Len(FrameSteps(variant)) THEN 1 ELSE @ + 1]

FrameCamPositions == {CameraHome, <<10, 16, 30>>}
FrameQuats == {IdentityQuat, YawHalfTurn}

InitFrame ==
  /\ variant \in FrameVariants
  /\ GestureInit
  /\ HudInit
  /\ DetectorInit
  /\ PanelInit
  /\ IdleInit

\* this.controls.update(): the pending pointer input moves the flat camera
FrameControls(p, q) ==
  /\ FrameStep = "controls"
  /\ camPos' = p
  /\ camQuat' = q
  /\ frame' = FrameAdvance(frame)
  /\ lastStep' = "Controls"
  /\ UNCHANGED <<variant, ctor, reg, proto, requests, now, session,
                 gestureVars, historyVars, xrPos, xrQuat, rootVars, uiVars,
                 detectorVars>>

\* this.updateUIPosition() / this.ui.updatePosition(isVR) / this.updateUI() /
\* the uiGroup block of animate()
FramePlace ==
  /\ FrameStep = "place"
  /\ LET place == Placement(variant, session, camPos, camQuat, xrPos, xrQuat)
     IN /\ rootPos' = place.pos
        /\ rootQuat' = place.quat
  /\ frame' = FrameAdvance(frame)
  /\ lastStep' = "Place"
  /\ UNCHANGED <<variant, ctor, reg, proto, requests, now, session,
                 gestureVars, historyVars, cameraVars, uiVars, detectorVars>>

\* the gesture block: in a session the handler of a hand may accept a pinch
\* and toggle the action buttons (the first class of main.js only logs it)
FrameGestures(accepted) ==
  /\ FrameStep = "gestures"
  /\ accepted => (session /\ variant # "main1")
  /\ actionButtons' = IF accepted THEN ~actionButtons ELSE actionButtons
  /\ frame' = FrameAdvance(frame)
  /\ lastStep' = "Gestures"
  /\ UNCHANGED <<variant, ctor, reg, proto, requests, now, session,
                 isPinching, lastPinchTime, pinchCount, indicator, mapModal,
                 domButtons, loopPending, historyVars, cameraVars, rootVars,
                 uiVars, detectorVars>>

\* this.renderer.render(this.scene, this.camera)
FrameRender ==
  /\ FrameStep = "render"
  /\ frame' = [FrameAdvance(frame) EXCEPT
                 !.rendered = [any |-> TRUE, pos |-> rootPos,
                               quat |-> rootQuat,
                               actionButtons |-> actionButtons]]
  /\ lastStep' = "Render"
  /\ UNCHANGED <<variant, ctor, reg, proto, requests, now, session,
                 gestureVars, historyVars, cameraVars, rootVars, uiVars,
                 detectorVars>>

\* between two callbacks: a session starts with its first viewer pose
FrameSessionStart(p, q) ==
  /\ frame.pc = 1
  /\ ~session
  /\ session' = TRUE
  /\ xrPos' = p
  /\ xrQuat' = q
  /\ xrPoseAvail' = TRUE
  /\ lastStep' = "SessionStart"
  /\ UNCHANGED <<idleVars, now, gestureVars, historyVars, camPos, camQuat,
                 rootVars, lastPlace, prevPlace, detectorVars, hudRoots,
                 panelVars>>

\* between two callbacks: the next XR frame brings a viewer pose
FrameHeadset(p, q) ==
  /\ frame.pc = 1
  /\ MoveHeadset(p, q)

FrameSessionEnd ==
  /\ frame.pc = 1
  /\ HudSessionEnd

\* between two callbacks: an event handler toggles the action buttons
FrameHandlerToggle ==
  /\ frame.pc = 1
  /\ actionButtons' = ~actionButtons
  /\ lastStep' = "HandlerToggle"
  /\ UNCHANGED <<idleVars, now, session, isPinching, lastPinchTime,
                 pinchCount, indicator, mapModal, domButtons, loopPending,
                 historyVars, cameraVars, rootVars, uiVars, detectorVars>>

NextFrame ==
  \/ \E p \in FrameCamPositions, q \in FrameQuats : FrameControls(p, q)
  \/ FramePlace
  \/ \E accepted \in BOOLEAN : FrameGestures(accepted)
  \/ FrameRender
  \/ \E p \in XrPositions, q \in FrameQuats : FrameSessionStart(p, q)
  \/ \E p \in XrPositions, q \in FrameQuats : FrameHeadset(p, q)
  \/ FrameSessionEnd
  \/ FrameHandlerToggle

SpecFrame == InitFrame /\ [][NextFrame]_vars

\* ------------------------------------------------------------------ claims
MissingData(p) == ~p.joints \/ p.index = Absent \/ p.thumb = Absent

\* the hands whose single pinch is bound to a toggle action
SinglePinchHands(v) ==
  IF v \in {"legacy", "main1"} THEN {}
  ELSE IF v = "envjs" THEN {"left"} ELSE Hands

\* C1: a pinch held without interruption by one hand invokes that hand's
\* bound toggle action at most once during the hold.
C1_HeldPinchFiresOnce == \A h \in Hands : holdFires[h] <= 1

C3_PerHandState ==
  mid.second => /\ isPinching = mid.isPinching
                /\ lastPinchTime = mid.lastPinchTime

\* C6: on the frame where a pinch-bound action fires, the debounce timestamp
\* is that frame's time.
C6_TimestampAtFiring == fired # {} => lastPinchTime = now

\* C7: a step in which a hand goes from pinching to a distance at or above
\* the threshold changes no panel's visible flag and not the timestamp.
C7_ReleaseOnlyResetsFlag ==
  [][(\E h \in released' : lastPose'[h] = FarHand)
       => /\ actionButtons' = actionButtons
          /\ mapModal' = mapModal
          /\ lastPinchTime' = lastPinchTime]_vars

\* C8: after a frame of a session in which a hand has no joints table or
\* lacks a tip joint, that hand's indicator is hidden, and the pinching flag
\* is clear unless a hand is pinching in that frame.
C8_LostTrackingGoesIdle ==
  (lastStep = "Update" /\ session) =>
    \A h \in Hands :
      MissingData(lastPose[h]) =>
        /\ ~indicator[h]
        /\ (\A k \in Hands : ~DetectPinchGesture(lastPose[k])) => ~isPinching

\* C9: right after a session end the gesture state is the initial one.
C9_ResetOnSessionEnd ==
  lastStep = "SessionEnd" =>
    /\ ~isPinching
    /\ \A h \in Hands : ~indicator[h]
    /\ lastPinchTime = 0
    /\ pinchCount = 0

HasBothTips(p) ==
  p.present /\ p.joints /\ p.index # Absent /\ p.thumb # Absent

TipDistanceSq(p) ==
  (p.index[1] - p.thumb[1]) * (p.index[1] - p.thumb[1])
  + (p.index[2] - p.thumb[2]) * (p.index[2] - p.thumb[2])
  + (p.index[3] - p.thumb[3]) * (p.index[3] - p.thumb[3])

\* C4: a hand with both tips is classified as pinching by every detector
\* exactly when the tips are less than 0.02 m (200 units) apart; at exactly
\* 200 it is not pinching, at 199 it is.
C4_StrictThreshold ==
  (lastStep = "Detect" /\ HasBothTips(probe)) =>
    LET near == TipDistanceSq(probe) < 200 * 200 IN
    /\ verdict.detect = near
    /\ verdict.check = near
    /\ verdict.proto = (IF near THEN "true" ELSE "false")
    /\ (TipDistanceSq(probe) = 200 * 200 => ~verdict.detect)
    /\ (TipDistanceSq(probe) = 199 * 199 => verdict.detect)

\* the detectors have judged tips exactly 0.02 m apart off the axes
C4_Witness ==
  /\ lastStep = "Detect"
  /\ probe.index = <<0, 120, 160>>
  /\ probe.thumb = Origin
  /\ ~verdict.detect /\ ~verdict.check /\ verdict.proto = "false"

\* C5: whatever is missing (the hand, its joints table, the index tip, the
\* thumb tip), every detector answers "not pinching" and raises no error.
C5_MissingInputsNotPinching ==
  (lastStep = "Detect" /\ ~HasBothTips(probe)) =>
    /\ verdict.detect = FALSE
    /\ verdict.check = FALSE
    /\ verdict.proto = "false"

\* the variants whose frame places the HUD with SpaceUI.updatePosition or
\* SpaceEnvironment.updateUIPosition, the routines with a flat standoff of 0.3
FlatStandoff03 == {"env3", "envjs"}

\* C10: outside a session, with the flat camera at (0, 1.6, 3), identity
\* orientation and a standoff of 0.3, a placement step puts the HUD root at
\* (0, 1.6, 2.7) with the camera's orientation.
C10_FlatPlacement ==
  (lastStep = "Place" /\ ~session /\ camPos = <<0, 16, 30>>
     /\ camQuat = <<0, 0, 0, 2>> /\ variant \in FlatStandoff03) =>
    /\ rootPos = <<0, 16, 27>>
    /\ rootQuat = camQuat

\* such a placement has run
C10_Witness ==
  /\ lastStep = "Place" /\ ~session
  /\ variant \in FlatStandoff03
  /\ camPos = <<0, 16, 30>> /\ camQuat = <<0, 0, 0, 2>>
  /\ rootPos = <<0, 16, 27>>

\* x - y on positions
SubVectors(a, b) == <<a[1] - b[1], a[2] - b[2], a[3] - b[3]>>

\* C11: when two successive placement steps run in the same mode and read
\* the same camera orientation, the HUD root moves by exactly the vector the
\* camera moved by between them, whatever happened in earlier frames.
C11_ReAnchoring ==
  (lastStep = "Place" /\ prevPlace.read # NoPlace
     /\ prevPlace.read.mode = lastPlace.mode
     /\ prevPlace.read.quat = lastPlace.quat) =>
    SubVectors(rootPos, prevPlace.pos)
      = SubVectors(lastPlace.pos, prevPlace.read.pos)

\* two placements with a turned camera that moved in between
C11_Witness ==
  /\ lastStep = "Place" /\ prevPlace.read # NoPlace
  /\ prevPlace.read.mode = lastPlace.mode
  /\ prevPlace.read.quat = lastPlace.quat
  /\ lastPlace.quat = DiagonalTurn
  /\ SubVectors(lastPlace.pos, prevPlace.read.pos) = <<0, 16, 30>>
  /\ rootPos # prevPlace.pos

MaxStandoff == 20

\* C12: a placement step that reads the same mode and camera pose as the
\* step before it leaves the HUD root pose as that step left it, and after
\* every placement step the root pose is the pose read in that step pushed
\* along its forward axis, with no trace of earlier frames.
C12_Idempotent ==
  lastStep = "Place" =>
    /\ prevPlace.read = lastPlace =>
         (rootPos = prevPlace.pos /\ rootQuat = prevPlace.quat)
    /\ \E k \in 1..MaxStandoff :
         [pos |-> rootPos, quat |-> rootQuat]
           = InFrontOf(lastPlace.pos, lastPlace.quat, k)

\* the placement has run twice on the same turned camera pose
C12_Witness ==
  /\ lastStep = "Place"
  /\ prevPlace.read = lastPlace
  /\ lastPlace.quat = DiagonalTurn
  /\ rootPos = prevPlace.pos

\* C13: after a placement step the HUD root pose is the pose of the active
\* camera (the XR camera while a session is presenting, the flat camera
\* otherwise) pushed along its forward axis.
C13_ActiveCamera ==
  lastStep = "Place" =>
    \E k \in 1..MaxStandoff :
      [pos |-> rootPos, quat |-> rootQuat]
        = InFrontOf(IF session THEN xrPos ELSE camPos,
                    IF session THEN xrQuat ELSE camQuat, k)

\* C14: a placement step that runs while no viewer pose has reached the XR
\* camera of the presenting session leaves the HUD root pose as it was.
C14_NoPoseSkips ==
  (lastStep = "Place" /\ session /\ ~xrPoseAvail) =>
    /\ rootPos = prevPlace.pos
    /\ rootQuat = prevPlace.quat

\* C15: once construction is over, and at every later state, exactly one HUD
\* root group has been created and added to a scene of the application.
C15_SingleHudRoot == Cardinality(hudRoots) = 1

ToggleOps == {"toggle", "toggleActionButtons", "toggleMapModal",
              "toggleMapWindow"}

\* the visible flag of a toggleable panel
VisibleOf(target) ==
  IF target = "actionButtons" THEN actionButtons
  ELSE IF target = "mapModal" THEN mapModal
  ELSE mapWindow

\* C16: after a toggle entry point was called twice in a row with the same
\* explicit state (true or false), the panel's visible flag is that state.
C16_ExplicitStateSets ==
  (call.op \in ToggleOps /\ call.arg \in {"true", "false"} /\ call.twice) =>
    VisibleOf(call.target) = (call.arg = "true")

\* C17: the value a toggle entry point returned is the panel's visible flag
\* as the call left it.
C17_ToggleReturnsState ==
  (call.op \in ToggleOps /\ call.target \in created) =>
    call.ret = B2S(VisibleOf(call.target))

\* what a call can be aimed at exists
Exists(target) ==
  \/ target \in created
  \/ target \in Stats /\ "statusPanel" \in created
  \/ target = "window"

\* C18: a toggle or update call whose target was never created raises no
\* error and changes no visibility flag, no registry entry and no displayed
\* value.
C18_MissingTargetNoOp ==
  [][(call'.op # "none" /\ lastStep' \in PanelSteps /\ ~Exists(call'.target))
       => /\ call'.ret # "throw"
          /\ UNCHANGED <<actionButtons, mapModal, mapWindow,
                         mapWindowVisible, created, statValue>>]_vars

\* everything a key press could touch besides the two panels' flags
KeyFrame ==
  <<mapWindow, mapWindowVisible, created, indicator, domButtons,
    isPinching, lastPinchTime, pinchCount, session, rootPos, rootQuat,
    hudRoots>>

\* C20: a KeyA event changes the action-button menu's visible flag and
\* nothing else, a KeyM event the map modal's visible flag and nothing else,
\* a KeyU event no visible flag, and any other key nothing at all.
C20_KeyboardTargets ==
  [][lastStep' = "KeyDown" =>
       /\ UNCHANGED KeyFrame
       /\ call'.arg = "KeyA" =>
            (actionButtons' = ~actionButtons
               /\ UNCHANGED <<mapModal, statValue>>)
       /\ call'.arg = "KeyM" =>
            (mapModal' = ~mapModal /\ UNCHANGED <<actionButtons, statValue>>)
       /\ call'.arg = "KeyU" => UNCHANGED <<actionButtons, mapModal>>
       /\ call'.arg \notin {"KeyA", "KeyM", "KeyU"} =>
            UNCHANGED <<actionButtons, mapModal, statValue>>]_vars

\* the map key was pressed while the action-button menu was shown
C20_Witness ==
  /\ lastStep = "KeyDown" /\ call.arg = "KeyM"
  /\ mapModal /\ actionButtons
  /\ \E st \in Stats : statValue[st] = UpdatedText

\* C19: at most one polling callback is scheduled at any time; outside a
\* session none is scheduled, the gesture handler has not run in the last
\* step and no gesture-driven toggle has fired.
C19_PollingScoped ==
  /\ loopPending <= 1
  /\ ~session => /\ loopPending = 0
                 /\ lastStep # "TrackGestures"
                 /\ fired = {}

\* a session in which a pinch fired a toggle has ended
C19_Witness ==
  /\ variant \in LoopVariants
  /\ lastStep = "SessionEnd"
  /\ lastFireTime # NoTime
  /\ loopPending = 0

\* the variants that bind the left pinch to the action-button menu and the
\* right pinch to the map modal
TwoHandVariants == {"app", "env3"}

HandBindingStep ==
  variant \in TwoHandVariants =>
    /\ fired' = {"left"} =>
         (actionButtons' = ~actionButtons /\ mapModal' = mapModal)
    /\ fired' = {"right"} =>
         (mapModal' = ~mapModal /\ actionButtons' = actionButtons)

\* C23: in a step where only the left hand's pinch fired, the action-button
\* menu is flipped and the map modal is left alone; where only the right
\* hand's pinch fired, the map modal is flipped and the menu is left alone.
C23_HandBinding == [][HandBindingStep]_vars

\* C24: after a frame of a session, the indicator of every hand that was
\* processed (it has a joints table) is visible exactly when the hand was
\* classified as pinching in that frame.
C24_IndicatorIffPinching ==
  (lastStep = "Update" /\ session) =>
    \A h \in Hands :
      (lastPose[h].present /\ lastPose[h].joints) =>
        indicator[h] = DetectPinchGesture(lastPose[h])

\* a pinching hand whose toggle the debounce suppressed shows its indicator
C24_Witness ==
  /\ lastStep = "Update" /\ session
  /\ \E h \in Hands :
       /\ DetectPinchGesture(lastPose[h])
       /\ indicator[h]
       /\ h \notin fired
       /\ lastFireTime # NoTime
       /\ lastFireTime # now

\* a step of the double-pinch variant: a detection is accepted when it
\* stamps lastPinchTime
DoublePinchStep ==
  variant = "legacy" =>
    /\ pinchCount' \in {0, 1}
    /\ lastStep' = "SessionEnd" => pinchCount' = 0
    /\ lastStep' \in {"SessionStart", "TrackGestures"} =>
         IF lastPinchTime' # lastPinchTime
         THEN IF pinchCount = 0
              THEN pinchCount' = 1 /\ domButtons' = domButtons
              ELSE pinchCount' = 0 /\ domButtons' = ~domButtons
         ELSE pinchCount' = pinchCount /\ domButtons' = domButtons

\* C26: in the double-pinch variant the pinch counter is 0 or 1 after every
\* step and 0 after a session end; an accepted detection at counter 0 only
\* raises the counter, an accepted detection at counter 1 toggles the legacy
\* buttons and returns the counter to 0, and nothing else toggles them.
C26_DoublePinch == [][DoublePinchStep]_vars

\* the second accepted detection has just shown the buttons
C26_Witness ==
  /\ variant = "legacy"
  /\ lastStep = "TrackGestures"
  /\ fired # {}
  /\ domButtons
  /\ pinchCount = 0

\* C25: for every interleaving of key events, map-button clicks and gesture
\* firings, each panel of the application is visible exactly when an odd
\* number of toggle calls has been dispatched to it since startup.
C25_ToggleParity ==
  variant = "app" =>
    /\ actionButtons = requests.actionButtons
    /\ mapModal = requests.mapModal

\* a pinch fires in a session after a key event and a click have toggled
\* the panels
C25_Witness ==
  /\ variant = "app"
  /\ session
  /\ fired = {"right"}
  /\ call.op = "click"
  /\ requests.mapModal = FALSE
  /\ requests.actionButtons

\* C27: the registry holds, under every id, the component most recently
\* created for it (none after a removal), and a component that a create
\* call has replaced is no longer attached under the UI root.
C27_CreateReplaces ==
  /\ \A id \in Ids : GetComponent(reg, id) = reg.latest[id]
  /\ (reg.last.op = "create" /\ reg.last.was # 0) =>
       ~AttachedUnderRoot(reg, reg.last.was)

\* C28: after removeComponent(id) the component is neither registered nor
\* attached under the UI root, and at all times an object is registered
\* exactly when it is attached under the UI root.
C28_RemoveDetaches ==
  /\ (reg.last.op = "remove" /\ reg.last.was # 0) =>
       /\ GetComponent(reg, reg.last.id) = 0
       /\ ~AttachedUnderRoot(reg, reg.last.was)
  /\ \A o \in Objects :
       (\E id \in Ids : GetComponent(reg, id) = o)
         <=> AttachedUnderRoot(reg, o)

\* C29: in the variants that own a map window, after construction and after
\* every toggleMapWindow call (no argument, true or false) the flag
\* mapWindowVisible equals the node's visible property.
C29_MapWindowFlagAgrees ==
  variant \in MapWindowVariants => mapWindowVisible = mapWindow

\* an explicit toggleMapWindow(false) has hidden a window that was shown
C29_Witness ==
  /\ variant \in MapWindowVariants
  /\ call.op = "toggleMapWindow"
  /\ call.arg = "false"
  /\ call.twice
  /\ ~mapWindow
  /\ ~mapWindowVisible

\* C30: after a frame of a session that processed at least one tracked hand
\* the demo panel is visible exactly when some tracked hand is pinching; in
\* desktop testing, outside a session, the panel's visibility equals the
\* pinch-mode flag after every frame and key event.
C30_PanelFollowsPinch ==
  /\ (lastStep = "ProtoFrame" /\ proto.session /\ ~proto.threw
        /\ proto.hands # <<>>) =>
       (proto.panel <=>
          \E i \in 1..Len(proto.hands) :
             IsPinching(proto.hands[i].hand) = "true")
  /\ (variant = "proto1" /\ ~proto.session
        /\ lastStep \in {"ProtoFrame", "ProtoKeyDown"}) =>
       proto.panel = proto.isPinchMode

\* C21: when a step of the constructor has thrown, the exception has not
\* left the constructor, the error element is visible and shows the error's
\* message, it was shown once, and exactly the steps before the failing one
\* were executed, each once; without a failure the element stays hidden.
C21_ConstructionFailure ==
  /\ ~ctor.escaped
  /\ ctor.done = SubSeq(ConstructorSteps(variant), 1, Len(ctor.done))
  /\ ctor.caught =>
       /\ ctor.shown = 1
       /\ ctor.errorVisible
       /\ ctor.errorText = "Error: " \o ctor.message
       /\ Len(ctor.done) = ctor.failAt - 1
       /\ ctor.pc > Len(ConstructorSteps(variant))
  /\ ~ctor.caught => (ctor.shown = 0 /\ ~ctor.errorVisible)

\* the SpaceEnvironment constructor threw inside NASASuitsApp's constructor
C21_Witness ==
  /\ variant = "app"
  /\ ctor.caught
  /\ ctor.failAt = 8
  /\ ctor.done[7] = "SpaceUI"
  /\ ctor.errorVisible

====
